---- MODULE Spec2Model ----
(***************************************************************************)
(* A model of the cafe-apps order backend: the product catalog, the        *)
(* transactions (order headers) and transactionsItems (order lines) kept   *)
(* in the store, and the request handlers of controllers/ that read and    *)
(* write them.                                                             *)
(*                                                                         *)
(* Numbers.  Product.price is a Float and Transaction.total and            *)
(* TransactionsItem.quantity are Int columns.  Every amount of the model   *)
(* is counted in halves of the currency unit (price 21 stands for 10.5),   *)
(* so an amount is integer-valued exactly when it is even; quantities are  *)
(* plain integers.                                                         *)
(*                                                                         *)
(* Identifiers.  Product ids are ObjectIds handed out by the store         *)
(* (1, 2, ...); 0 stands for a string that is no ObjectId.  nanoid() is    *)
(* taken to return a value never returned before.                          *)
(***************************************************************************)
EXTENDS Integers, Sequences, FiniteSets, TLC

\* ---- bounds of the model ------------------------------------------------
MaxProducts == 2
MaxCreates == 2
MaxItems == 2
MaxClock == 3
MaxRegisters == 2
MaxUpdates == 2

\* ---- program constants ---------------------------------------------------
OK == 200
CREATED == 201
ACCEPTED == 202
NOT_FOUND == 404
BAD_REQUEST == 400
UNAUTHORIZED == 401
FORBIDDEN == 403
INTERNAL_SERVER_ERROR == 500

PENDING == "PENDING"
payment_status == {"PENDING", "PAID", "CANCELED"}
NULL == "null"
UNDEFINED == "undefined"

\* ---- input domains -------------------------------------------------------
ProductIds == 1..MaxProducts
RequestIds == 0..MaxProducts
Quantities == {1, 2}
ProductInputs ==
  { [name |-> "latte", image |-> "a.png", price |-> 10],
    [name |-> "mocha", image |-> "b.png", price |-> 21] }
Customers ==
  { [customerName |-> "ann", customerEmail |-> "ann@cafe", customerPhone |-> "0811",
     customerTableNumber |-> 7] }
RequestItems == [id : RequestIds, quantity : Quantities]
Bodies == UNION { [1..n -> RequestItems] : n \in 1..MaxItems }
StatusInputs == payment_status \cup {"COMPLETED"}
Reqs == 1..MaxCreates
TxnIds == 1..MaxCreates
Regs == 1..MaxRegisters
Upds == 1..MaxUpdates
\* bodies validateRegister and validateLogin accept
RegisterBodies ==
  [name : {"ann"}, email : {"a@cafe", "b@cafe"}, password : {"pw1", "pw2"}, role : {"USER"}]
LoginBodies == [email : {"a@cafe", "b@cafe"}, password : {"pw1", "pw2"}]
\* req.user as the token gate leaves it for the handlers behind it
Staff == { [userId |-> 1, role |-> "ADMIN"] }
\* the Authorization header with 'Bearer ' taken off: none, one that does not
\* verify, one that does
Tokens == {UNDEFINED, "forged", "jwt"}

VARIABLES
  products,      \* the products collection: ObjectId -> [name, image, price]
  nextProductId, \* the next ObjectId the store hands out
  transactions,  \* the transactions collection: id -> header
  items,         \* the transactionsItems collection: a set of order lines
  now,           \* the store's clock, read for createdAt / updatedAt
  ct,            \* the createTransaction requests: position and locals of each
  res,           \* the response sent last by a handler that answers in one step
  users,         \* the users collection: a set of rows
  rg,            \* the register requests: position and locals of each
  ut             \* the updateTransactionStatus requests followed through their await

vars == <<products, nextProductId, transactions, items, now, ct, res, users, rg, ut>>

\* ---- pure helpers --------------------------------------------------------
\* @db.ObjectId: the store parses the string; 0 stands for one it cannot parse
IsObjectId(id) == id > 0

\* the id strings of a request are numbered: 1..MaxProducts are the 24 hex digits
\* of a product id in lower case, as the store writes them, and MaxProducts + p is
\* the id of product p spelled in upper case; the store parses either spelling
ObjectId(id) == IF id > MaxProducts THEN id - MaxProducts ELSE id

\* an Int column takes integer values only (amounts are counted in halves)
IsInt(x) == x % 2 = 0

\* productsFromDB.reduce((acc, product) => acc + product.quantity * product.price, 0)
RECURSIVE gross_amount(_)
gross_amount(productsFromDB) ==
  IF productsFromDB = {} THEN 0
  ELSE LET product == CHOOSE p \in productsFromDB : TRUE
       IN product.quantity * product.price + gross_amount(productsFromDB \ {product})

\* products.find((productFromRequest) => productFromRequest.id === id): the first match
Find(body, id) ==
  body[CHOOSE i \in DOMAIN body :
         /\ body[i].id = id
         /\ \A j \in DOMAIN body : body[j].id = id => i <= j]

\* find() returns undefined when no entry of the request has that very string
Finds(body, id) == \E i \in DOMAIN body : body[i].id = id

\* an error thrown by the store client: it carries no statusCode
StoreError(name) == [name |-> name, statusCode |-> 0]

\* the error middleware: the error's own status code, 500 when it has none
errorHandlerMiddleware(err) ==
  [http |-> IF err.statusCode # 0 THEN err.statusCode ELSE INTERNAL_SERVER_ERROR,
   body |-> [msg |-> "something went wrong"],
   error |-> err.name]

\* res.status(http).json(body)
Json(http, body) == [http |-> http, body |-> body, error |-> NULL]

NoResponse == [http |-> 0, body |-> [msg |-> "none"], error |-> NULL]

\* ---- the store's queries -------------------------------------------------
\* prisma.transactionsItem rows of one transaction, each with its product
\* (include: { product: { select: ... } })
ItemsOf(id) == {i \in items : i.transactionId = id}

IncludeProduct(item) ==
  [productId |-> item.productId, productName |-> item.productName,
   price |-> item.price, quantity |-> item.quantity,
   product |-> [id |-> item.productId,
                name |-> products[item.productId].name,
                price |-> products[item.productId].price,
                image |-> products[item.productId].image]]

\* the product relation is required: a row whose product is gone fails the query
IncludeFails(id) == \E i \in ItemsOf(id) : i.productId \notin DOMAIN products

Include(id) ==
  [id |-> id,
   total |-> transactions[id].total,
   status |-> transactions[id].status,
   customerName |-> transactions[id].customerName,
   customerEmail |-> transactions[id].customerEmail,
   customerPhone |-> transactions[id].customerPhone,
   customerTableNumber |-> transactions[id].customerTableNumber,
   snapToken |-> transactions[id].snapToken,
   snapRedirectUrl |-> transactions[id].snapRedirectUrl,
   paymentMethod |-> transactions[id].paymentMethod,
   createdAt |-> transactions[id].createdAt,
   updatedAt |-> transactions[id].updatedAt,
   transactionsItems |-> {IncludeProduct(i) : i \in ItemsOf(id)}]

\* reformTransaction with the name read from the current product
reformTransaction_liveName(transaction) ==
  [id |-> transaction.id,
   total |-> transaction.total,
   status |-> transaction.status,
   customerName |-> transaction.customerName,
   customerEmail |-> transaction.customerEmail,
   customerPhone |-> transaction.customerPhone,
   customerTableNumber |-> transaction.customerTableNumber,
   snapToken |-> transaction.snapToken,
   snapRedirectUrl |-> transaction.snapRedirectUrl,
   paymentMethod |-> transaction.paymentMethod,
   products |-> { [id |-> transactionItem.productId,
                   name |-> transactionItem.product.name,
                   price |-> transactionItem.price,
                   quantity |-> transactionItem.quantity,
                   image |-> transactionItem.product.image]
                  : transactionItem \in transaction.transactionsItems }]

\* utils/reformTransaction.js
reformTransaction(transaction) ==
  [id |-> transaction.id,
   total |-> transaction.total,
   status |-> transaction.status,
   customerName |-> transaction.customerName,
   customerEmail |-> transaction.customerEmail,
   customerPhone |-> transaction.customerPhone,
   customerTableNumber |-> transaction.customerTableNumber,
   snapToken |-> transaction.snapToken,
   snapRedirectUrl |-> transaction.snapRedirectUrl,
   paymentMethod |-> transaction.paymentMethod,
   products |-> { [id |-> transactionItem.productId,
                   name |-> transactionItem.productName,
                   price |-> transactionItem.price,
                   quantity |-> transactionItem.quantity,
                   image |-> transactionItem.product.image]
                  : transactionItem \in transaction.transactionsItems }]

\* ---- initial state -------------------------------------------------------
IdleRequest ==
  [pc |-> "idle", req |-> NULL, products |-> <<>>, customer |-> NULL, productsFromDB |-> {},
   transactionId |-> 0, gross_amount |-> 0, error |-> NULL, res |-> NoResponse]

IdleRegister == [pc |-> "idle", body |-> NULL, error |-> NULL, res |-> NoResponse]

IdleUpdate ==
  [pc |-> "idle", id |-> 0, status |-> NULL, transaction |-> NULL, error |-> NULL,
   res |-> NoResponse]

Init ==
  /\ products = <<>>
  /\ nextProductId = 1
  /\ transactions = <<>>
  /\ items = {}
  /\ now = 1
  /\ ct = [r \in Reqs |-> IdleRequest]
  /\ res = [handler |-> "none", arg |-> NULL, http |-> 0, body |-> [msg |-> "none"],
            error |-> NULL]
  /\ users = {}
  /\ rg = [g \in Regs |-> IdleRegister]
  /\ ut = [u \in Upds |-> IdleUpdate]

\* ---- createTransaction ---------------------------------------------------
\* `TRX-${nanoid(4)}-${nanoid(8)}`: a value no other request draws
nanoid(r) == r

\* the handler's answer to request r, which then has returned
Done(r, locals, response) ==
  ct' = [ct EXCEPT ![r] = [locals EXCEPT !.pc = "done", !.res = response]]

\* an exception leaves the handler and reaches the error middleware
Throw(r, locals, err) ==
  ct' = [ct EXCEPT ![r] = [locals EXCEPT !.pc = "done",
                                         !.error = err.name,
                                         !.res = errorHandlerMiddleware(err)]]

\* prisma.product.findMany({ where: { id: { in: ids } } })
FindManyIn(ids) ==
  { [id |-> id, name |-> products[id].name, image |-> products[id].image,
     price |-> products[id].price]
    : id \in {ObjectId(requested) : requested \in ids} \cap DOMAIN products }

\* productsFromDB.forEach(product => product.quantity = products.find(...).quantity)
WithQuantity(found, body) ==
  { [id |-> p.id, name |-> p.name, image |-> p.image, price |-> p.price,
     quantity |-> Find(body, p.id).quantity] : p \in found }

\* lines 133-170: the catalog lookup, the 404 answer, the quantities, the id, the total
createTransaction(r, body, customer) ==
  /\ ct[r].pc \in {"idle", "next"}
  /\ r > 1 => ct[r - 1].pc # "idle"
  /\ LET ids == {body[i].id : i \in DOMAIN body}
         arrived == [ct[r] EXCEPT !.products = body, !.customer = customer]
     IN IF \E id \in ids : ~IsObjectId(id)
        THEN Throw(r, arrived, StoreError("Malformed ObjectID"))
        ELSE LET found == FindManyIn(ids)
                 productsFromDB == WithQuantity(found, body)
             IN IF Cardinality(found) = 0
                THEN Done(r, arrived,
                          Json(NOT_FOUND, [statusCode |-> NOT_FOUND, status |-> "Not found",
                                           msg |-> "Products not found"]))
                ELSE IF \E product \in found : ~Finds(body, product.id)
                THEN Throw(r, arrived, StoreError("TypeError"))
                ELSE ct' = [ct EXCEPT ![r] =
                              [arrived EXCEPT !.pc = "create",
                                              !.productsFromDB = productsFromDB,
                                              !.transactionId = nanoid(r),
                                              !.gross_amount = gross_amount(productsFromDB)]]
  /\ UNCHANGED <<products, nextProductId, transactions, items, now, res, users, rg, ut>>

\* prisma.transaction.create({ data }): the header row
TransactionCreate(id, total, customer) ==
  (id :> [total |-> total,
          status |-> PENDING,
          customerName |-> customer.customerName,
          customerEmail |-> customer.customerEmail,
          customerPhone |-> customer.customerPhone,
          customerTableNumber |-> customer.customerTableNumber,
          snapToken |-> NULL,
          snapRedirectUrl |-> NULL,
          paymentMethod |-> NULL,
          createdAt |-> now,
          updatedAt |-> now]) @@ transactions

\* lines 172-184: the header insert; total is an Int column
createTransactionHeader(r) ==
  /\ ct[r].pc = "create"
  /\ IF IsInt(ct[r].gross_amount)
     THEN /\ now <= MaxClock
          /\ transactions' =
               TransactionCreate(ct[r].transactionId, ct[r].gross_amount, ct[r].customer)
          /\ now' = now + 1
          /\ ct' = [ct EXCEPT ![r].pc = "createMany"]
     ELSE /\ Throw(r, ct[r], StoreError("PrismaClientValidationError"))
          /\ UNCHANGED <<transactions, now>>
  /\ UNCHANGED <<products, nextProductId, items, res, users, rg, ut>>

\* prisma.transactionsItem.createMany({ data }): one row per product found
TransactionsItemCreateMany(transactionId, productsFromDB) ==
  items \cup { [transactionId |-> transactionId,
                productId |-> product.id,
                productName |-> product.name,
                price |-> product.price,
                quantity |-> product.quantity] : product \in productsFromDB }

\* lines 186-212: the item insert, which the store may fail, and the answer
createTransactionItems(r, storeFails) ==
  /\ ct[r].pc = "createMany"
  /\ IF storeFails
     THEN /\ Throw(r, ct[r], StoreError("createMany failed"))
          /\ UNCHANGED items
     ELSE /\ items' = TransactionsItemCreateMany(ct[r].transactionId, ct[r].productsFromDB)
          /\ Done(r, ct[r],
                  Json(OK, [status |-> "Created", statusCode |-> CREATED,
                            msg |-> "Successfully created transactions",
                            data |-> [id |-> ct[r].transactionId,
                                      status |-> PENDING,
                                      customerName |-> ct[r].customer.customerName,
                                      customerEmail |-> ct[r].customer.customerEmail,
                                      customerPhone |-> ct[r].customer.customerPhone,
                                      customerTableNumber |->
                                        ct[r].customer.customerTableNumber,
                                      products |-> ct[r].productsFromDB,
                                      snapToken |-> NULL,
                                      snapRedirectUrl |-> NULL]]))
  /\ UNCHANGED <<products, nextProductId, transactions, now, res, users, rg, ut>>

\* ---- the handlers that answer in one step --------------------------------
Answer(handler, arg, response) ==
  [handler |-> handler, arg |-> arg, http |-> response.http, body |-> response.body,
   error |-> response.error]

\* prisma.transaction.findMany({ where, include }): where = {} when status is falsy
FindManyWhere(status) ==
  { id \in DOMAIN transactions : status = UNDEFINED \/ transactions[id].status = status }

\* lines 309-345
getTransactions(status) ==
  /\ res' =
       Answer("getTransactions", status,
         IF status # UNDEFINED /\ status \notin payment_status
         THEN errorHandlerMiddleware(StoreError("PrismaClientValidationError"))
         ELSE IF \E id \in FindManyWhere(status) : IncludeFails(id)
         THEN errorHandlerMiddleware(StoreError("Inconsistent query result"))
         ELSE Json(OK, [status |-> "OK", statusCode |-> OK, msg |-> "SUCCESS",
                        data |-> { reformTransaction(Include(id))
                                   : id \in FindManyWhere(status) }]))
  /\ UNCHANGED <<products, nextProductId, transactions, items, now, ct, users, rg, ut>>

\* lines 456-494
getTransactionById(id) ==
  /\ res' =
       Answer("getTransactionById", id,
         IF id \notin DOMAIN transactions
         THEN Json(NOT_FOUND, [statusCode |-> NOT_FOUND, status |-> "Not found",
                               msg |-> "Transaction not found"])
         ELSE IF IncludeFails(id)
         THEN errorHandlerMiddleware(StoreError("Inconsistent query result"))
         ELSE Json(OK, [status |-> "OK", statusCode |-> OK, msg |-> "SUCCESS",
                        data |-> reformTransaction(Include(id))]))
  /\ UNCHANGED <<products, nextProductId, transactions, items, now, ct, users, rg, ut>>

\* update without the where clause: every row is written
TransactionUpdate_many(id, status) ==
  [t \in DOMAIN transactions |->
     [transactions[t] EXCEPT !.status = IF status = UNDEFINED THEN @ ELSE status,
                             !.paymentMethod = NULL,
                             !.updatedAt = now]]

\* an update that writes the status only to a row never updated before
TransactionUpdate_firstWins(id, status) ==
  [transactions EXCEPT ![id] =
     [@ EXCEPT !.status = IF status = UNDEFINED \/ @ # PENDING
                          THEN @ ELSE status,
               !.paymentMethod = NULL,
               !.updatedAt = now]]

\* prisma.transaction.update({ where: { id }, data: { status, paymentMethod: null } });
\* an undefined status is left out of the write; updatedAt is @updatedAt
TransactionUpdate(id, status) ==
  [transactions EXCEPT ![id] =
     [@ EXCEPT !.status = IF status = UNDEFINED THEN @ ELSE status,
               !.paymentMethod = NULL,
               !.updatedAt = now]]

\* updateTransactionStatus on a status column that takes any string
updateTransactionStatus_anyString(id, status) ==
  /\ IF id \notin DOMAIN transactions
     THEN /\ res' = Answer("updateTransactionStatus", [id |-> id, status |-> status],
                      errorHandlerMiddleware(StoreError("RecordNotFound")))
          /\ UNCHANGED <<transactions, now>>
     ELSE /\ now <= MaxClock
          /\ transactions' = TransactionUpdate(id, status)
          /\ now' = now + 1
          /\ res' = Answer("updateTransactionStatus", [id |-> id, status |-> status],
                      Json(OK, [status |-> "Accepted", statusCode |-> ACCEPTED,
                                msg |-> "Successfully update transaction",
                                data |-> [id |-> id] @@ transactions'[id]]))
  /\ UNCHANGED <<products, nextProductId, items, ct, users, rg, ut>>

\* lines 573-601: the update throws for a value outside the enum and for an id that
\* matches no row, so the branch on a null result (587-593) is never taken
updateTransactionStatus(id, status) ==
  /\ IF status # UNDEFINED /\ status \notin payment_status
     THEN /\ res' = Answer("updateTransactionStatus", [id |-> id, status |-> status],
                      errorHandlerMiddleware(StoreError("PrismaClientValidationError")))
          /\ UNCHANGED <<transactions, now>>
     ELSE IF id \notin DOMAIN transactions
     THEN /\ res' = Answer("updateTransactionStatus", [id |-> id, status |-> status],
                      errorHandlerMiddleware(StoreError("RecordNotFound")))
          /\ UNCHANGED <<transactions, now>>
     ELSE /\ now <= MaxClock
          /\ transactions' = TransactionUpdate(id, status)
          /\ now' = now + 1
          /\ res' = Answer("updateTransactionStatus", [id |-> id, status |-> status],
                      Json(OK, [status |-> "Accepted", statusCode |-> ACCEPTED,
                                msg |-> "Successfully update transaction",
                                data |-> [id |-> id] @@ transactions'[id]]))
  /\ UNCHANGED <<products, nextProductId, items, ct, users, rg, ut>>

\* updateTransactionStatus followed through its await, for requests that run side
\* by side: lines 573-585, the store applies the update (or refuses it) ...
updateTransactionStatusAwait(u, id, status) ==
  /\ ut[u].pc = "idle"
  /\ u > 1 => ut[u - 1].pc # "idle"
  /\ LET arrived == [ut[u] EXCEPT !.id = id, !.status = status]
     IN IF status # UNDEFINED /\ status \notin payment_status
        THEN /\ ut' = [ut EXCEPT ![u] =
                        [arrived EXCEPT
                           !.pc = "done", !.error = "PrismaClientValidationError",
                           !.res = errorHandlerMiddleware(
                                     StoreError("PrismaClientValidationError"))]]
             /\ UNCHANGED <<transactions, now>>
        ELSE IF id \notin DOMAIN transactions
        THEN /\ ut' = [ut EXCEPT ![u] =
                        [arrived EXCEPT
                           !.pc = "done", !.error = "RecordNotFound",
                           !.res = errorHandlerMiddleware(StoreError("RecordNotFound"))]]
             /\ UNCHANGED <<transactions, now>>
        ELSE /\ now <= MaxClock
             /\ transactions' = TransactionUpdate(id, status)
             /\ now' = now + 1
             /\ ut' = [ut EXCEPT ![u] =
                        [arrived EXCEPT !.pc = "answer",
                                        !.transaction = [id |-> id] @@ transactions'[id]]]
  /\ UNCHANGED <<products, nextProductId, items, ct, res, users, rg>>

\* ... and lines 595-600, the handler answers with the row the update returned
updateTransactionStatusAnswer(u) ==
  /\ ut[u].pc = "answer"
  /\ ut' = [ut EXCEPT ![u] =
              [@ EXCEPT !.pc = "done",
                        !.res = Json(OK, [status |-> "Accepted", statusCode |-> ACCEPTED,
                                          msg |-> "Successfully update transaction",
                                          data |-> ut[u].transaction])]]
  /\ UNCHANGED <<products, nextProductId, transactions, items, now, ct, res, users, rg>>

\* ---- the catalog ---------------------------------------------------------
\* productController.js createProduct: the store assigns the ObjectId
createProduct(user, data) ==
  /\ nextProductId <= MaxProducts
  /\ products' = (nextProductId :> data) @@ products
  /\ nextProductId' = nextProductId + 1
  /\ res' = Answer("createProduct", [user |-> user, id |-> nextProductId],
              Json(CREATED, [status |-> "Created", statusCode |-> CREATED,
                             msg |-> "Successfully create product",
                             data |-> [id |-> nextProductId] @@ data]))
  /\ UNCHANGED <<transactions, items, now, ct, users, rg, ut>>

\* the required relation TransactionsItem.product restricts the delete
Referenced(id) == \E i \in items : i.productId = id

\* deleteProductById with the relation set to cascade: the order lines of the
\* product are deleted with it
deleteProductById_cascade(user, id) ==
  /\ IF ~IsObjectId(id)
     THEN /\ res' = Answer("deleteProductById", [user |-> user, id |-> id],
                      errorHandlerMiddleware([name |-> "BadRequestError",
                                              statusCode |-> BAD_REQUEST]))
          /\ UNCHANGED <<products, items>>
     ELSE IF id \notin DOMAIN products
     THEN /\ res' = Answer("deleteProductById", [user |-> user, id |-> id],
                      errorHandlerMiddleware(StoreError("TypeError")))
          /\ UNCHANGED <<products, items>>
     ELSE /\ products' = [p \in DOMAIN products \ {id} |-> products[p]]
          /\ items' = {i \in items : i.productId # id}
          /\ res' = Answer("deleteProductById", [user |-> user, id |-> id],
                      Json(ACCEPTED, [status |-> "Accepted", statusCode |-> ACCEPTED,
                                      msg |-> "Successfully delete product",
                                      data |-> [id |-> id] @@ products[id]]))
  /\ UNCHANGED <<nextProductId, transactions, now, ct, users, rg, ut>>

\* productController.js deleteProductById
deleteProductById(user, id) ==
  /\ IF ~IsObjectId(id)
     THEN /\ res' = Answer("deleteProductById", [user |-> user, id |-> id],
                      errorHandlerMiddleware([name |-> "BadRequestError",
                                              statusCode |-> BAD_REQUEST]))
          /\ UNCHANGED products
     ELSE IF id \notin DOMAIN products
     THEN /\ res' = Answer("deleteProductById", [user |-> user, id |-> id],
                      errorHandlerMiddleware(StoreError("TypeError")))
          /\ UNCHANGED products
     ELSE IF Referenced(id)
     THEN /\ res' = Answer("deleteProductById", [user |-> user, id |-> id],
                      errorHandlerMiddleware(StoreError("TypeError")))
          /\ UNCHANGED products
     ELSE /\ products' = [p \in DOMAIN products \ {id} |-> products[p]]
          /\ res' = Answer("deleteProductById", [user |-> user, id |-> id],
                      Json(ACCEPTED, [status |-> "Accepted", statusCode |-> ACCEPTED,
                                      msg |-> "Successfully delete product",
                                      data |-> [id |-> id] @@ products[id]]))
  /\ UNCHANGED <<nextProductId, transactions, items, now, ct, users, rg, ut>>

\* a product row edited in the store by another client of the database: no
\* handler of this repository updates a product
ProductEdited(id, data) ==
  /\ id \in DOMAIN products
  /\ data # products[id]
  /\ products' = [products EXCEPT ![id] = data]
  /\ UNCHANGED <<nextProductId, transactions, items, now, ct, res, users, rg, ut>>

\* productController.js getProductById: data is the row found, if there is one
getProductById(id) ==
  /\ res' = Answer("getProductById", id,
              IF ~IsObjectId(id)
              THEN errorHandlerMiddleware([name |-> "BadRequestError",
                                           statusCode |-> BAD_REQUEST])
              ELSE Json(OK, [status |-> "OK", statusCode |-> OK, msg |-> "SUCCESS",
                             data |-> { [id |-> p] @@ products[p]
                                        : p \in {id} \cap DOMAIN products }]))
  /\ UNCHANGED <<products, nextProductId, transactions, items, now, ct, users, rg, ut>>

\* ---- register and login ---------------------------------------------------
\* errors/customError.js
UnauthenticatedError == [name |-> "UnauthenticatedError", statusCode |-> UNAUTHORIZED]

\* utils/passwordUtils.js: the hash of a password, and the comparison with it
hashPassword(password) == [hash |-> password]
comparePassword(password, hashed) == hashed = hashPassword(password)

\* utils/tokenUtils.js createJWT: a token that verifies
createJWT(payload) == "jwt"

\* prisma.user.findUnique({ where: { email } }): the rows found, at most one
UserFindUnique(email) == {user \in users : user.email = email}

\* a users collection without the unique index on email
UniqueConstraintFails_noIndex(data) == FALSE

\* email String @unique: the store refuses a second row with the same email
UniqueConstraintFails(data) == \E user \in users : user.email = data.email

\* prisma.user.create({ data }): the row as stored, with the ObjectId it is given
UserCreate(data) == [id |-> Cardinality(users) + 1] @@ data

RegisterDone(g, locals, response) ==
  rg' = [rg EXCEPT ![g] = [locals EXCEPT !.pc = "done", !.res = response]]

\* catch (error) { next(error) }
RegisterNext(g, locals, err) ==
  rg' = [rg EXCEPT ![g] = [locals EXCEPT !.pc = "done", !.error = err.name,
                                         !.res = errorHandlerMiddleware(err)]]

\* authController.js register, lines 80-93: the password is hashed into the
\* body, then the pre-check for a user with this email
register(g, body) ==
  /\ rg[g].pc = "idle"
  /\ g > 1 => rg[g - 1].pc # "idle"
  /\ LET hashedPassword == hashPassword(body.password)
         arrived == [rg[g] EXCEPT !.body = [body EXCEPT !.password = hashedPassword]]
         userExisting == UserFindUnique(body.email)
     IN IF userExisting # {}
        THEN RegisterNext(g, arrived, UnauthenticatedError)
        ELSE rg' = [rg EXCEPT ![g] = [arrived EXCEPT !.pc = "create"]]
  /\ UNCHANGED <<products, nextProductId, transactions, items, now, ct, res, users, ut>>

\* authController.js register, lines 95-107: the insert and the answer
registerCreate(g) ==
  /\ rg[g].pc = "create"
  /\ IF UniqueConstraintFails(rg[g].body)
     THEN /\ RegisterNext(g, rg[g], StoreError("Unique constraint failed"))
          /\ UNCHANGED users
     ELSE LET user == UserCreate(rg[g].body)
          IN /\ users' = users \cup {user}
             /\ RegisterDone(g, rg[g],
                   Json(CREATED, [status |-> "Created", statusCode |-> CREATED,
                                  msg |-> "Successfully register", data |-> user]))
  /\ UNCHANGED <<products, nextProductId, transactions, items, now, ct, res, ut>>

\* authController.js login
login(body) ==
  /\ res' =
       Answer("login", body,
         LET found == UserFindUnique(body.email)
         IN IF found = {}
            THEN errorHandlerMiddleware(UnauthenticatedError)
            ELSE LET user == CHOOSE row \in found : TRUE
                     userWithoutPassword ==
                       [field \in DOMAIN user \ {"password"} |-> user[field]]
                 IN IF ~comparePassword(body.password, user.password)
                    THEN errorHandlerMiddleware(UnauthenticatedError)
                    ELSE Json(OK, [status |-> "OK", statusCode |-> OK,
                                   msg |-> "Successfully login",
                                   accessToken |->
                                     createJWT([userId |-> user.id, role |-> user.role]),
                                   data |-> userWithoutPassword]))
  /\ UNCHANGED <<products, nextProductId, transactions, items, now, ct, users, rg, ut>>

\* ---- the middleware of the routes ---------------------------------------
\* utils/tokenUtils.js verifyJWT: jwt.verify succeeds for a token this server
\* signed and that has not expired, and throws for any other
Verifies(token) == token = "jwt"

\* the { userId, role } verifyJWT returns; a token that does not verify yields none
verifyJWT(token) ==
  IF Verifies(token) THEN CHOOSE user \in Staff : TRUE
  ELSE [userId |-> 0, role |-> UNDEFINED]

\* authenticateUser lets every request through
authenticateUser_open(token) == TRUE

\* middleware/authMiddleware.js authenticateUser: next() is called, with req.user
\* set, when there is a token and it verifies; UnauthenticatedError is thrown otherwise
authenticateUser(token) == token # UNDEFINED /\ Verifies(token)

\* router.route('/product').post(authenticateUser, validateProductInput, createProduct),
\* for a body the validator accepts
POST_product(token, data) ==
  IF authenticateUser(token)
  THEN createProduct(verifyJWT(token), data)
  ELSE /\ res' = Answer("POST /product", [token |-> token],
                    errorHandlerMiddleware(UnauthenticatedError))
       /\ UNCHANGED <<products, nextProductId, transactions, items, now, ct, users, rg, ut>>

\* router.route('/product/:id').delete(authenticateUser, deleteProductById)
DELETE_product(token, id) ==
  IF authenticateUser(token)
  THEN deleteProductById(verifyJWT(token), id)
  ELSE /\ res' = Answer("DELETE /product/:id", [token |-> token],
                    errorHandlerMiddleware(UnauthenticatedError))
       /\ UNCHANGED <<products, nextProductId, transactions, items, now, ct, users, rg, ut>>

\* a message is the sequence of its words; String.prototype.startsWith
StartsWith(msg, prefix) ==
  Len(msg) >= Len(prefix) /\ SubSeq(msg, 1, Len(prefix)) = prefix

\* validateTransaction without the check of customerPhone
validateTransaction_noPhone(req) ==
  SelectSeq(<< [field |-> "products", msg |-> <<"product", "is", "required">>],
               [field |-> "customerName", msg |-> <<"name", "is", "required">>],
               [field |-> "customerEmail", msg |-> <<"email", "is", "required">>],
               [field |-> "customerTableNumber",
                msg |-> <<"number", "table", "is", "required">>] >>,
            LAMBDA check : check.field \in req.lacks)

\* validateTransaction: body(field).notEmpty().withMessage(msg), one check per
\* field; the result is validationResult(req).array(), in the order of the checks
validateTransaction(req) ==
  SelectSeq(<< [field |-> "products", msg |-> <<"product", "is", "required">>],
               [field |-> "customerName", msg |-> <<"name", "is", "required">>],
               [field |-> "customerEmail", msg |-> <<"email", "is", "required">>],
               [field |-> "customerPhone", msg |-> <<"phone", "is", "required">>],
               [field |-> "customerTableNumber",
                msg |-> <<"number", "table", "is", "required">>] >>,
            LAMBDA check : check.field \in req.lacks)

\* withValidationErrors: the error thrown for a non-empty list of messages
withValidationErrors(errorMessages) ==
  IF StartsWith(errorMessages[1], <<"no", "products">>)
  THEN [name |-> "NotFoundError", statusCode |-> NOT_FOUND]
  ELSE IF StartsWith(errorMessages[1], <<"not", "authorized">>)
  THEN [name |-> "UnauthorizedError", statusCode |-> FORBIDDEN]
  ELSE [name |-> "BadRequestError", statusCode |-> BAD_REQUEST]

\* router.post('/transaction', validateTransaction, createTransaction): the
\* request arrives and passes the validator, which hands it on with next() or throws
POST_transaction(r, req) ==
  /\ ct[r].pc = "idle"
  /\ r > 1 => ct[r - 1].pc # "idle"
  /\ LET errors == validateTransaction(req)
         errorMessages == [i \in DOMAIN errors |-> errors[i].msg]
         arrived == [ct[r] EXCEPT !.req = req]
     IN IF errors = <<>>
        THEN ct' = [ct EXCEPT ![r] = [arrived EXCEPT !.pc = "next"]]
        ELSE Throw(r, arrived, withValidationErrors(errorMessages))
  /\ UNCHANGED <<products, nextProductId, transactions, items, now, res, users, rg, ut>>

\* ---- the system ----------------------------------------------------------
\* Spec: one createTransaction request, any body over the whole catalog, every
\* handler.  SpecOrders: MaxCreates createTransaction requests running side by
\* side over a catalog of one product, and the handlers of the transaction router.
FirstRequest == {1}
FirstProduct == {1}
FirstProductBodies == { body \in Bodies : \A i \in DOMAIN body : body[i].id \in FirstProduct }

\* request bodies that name the first product in either spelling of its id
FirstProductSpellings == FirstProduct \cup {MaxProducts + p : p \in FirstProduct}
SpelledBodies ==
  UNION { [1..n -> [id : FirstProductSpellings, quantity : Quantities]] : n \in 1..MaxItems }

\* the fields a POST /transaction body can lack: none, any one, all of them
TransactionFields ==
  {"products", "customerName", "customerEmail", "customerPhone", "customerTableNumber"}
Lacks == {{}} \cup {{field} : field \in TransactionFields} \cup {TransactionFields}
TransactionRequests == [products : FirstProductBodies, customer : Customers, lacks : Lacks]

Next ==
  \/ \E r \in FirstRequest, body \in Bodies, customer \in Customers :
       createTransaction(r, body, customer)
  \/ \E r \in FirstRequest : createTransactionHeader(r)
  \/ \E r \in FirstRequest, storeFails \in BOOLEAN : createTransactionItems(r, storeFails)
  \/ \E status \in StatusInputs \cup {UNDEFINED} : getTransactions(status)
  \/ \E id \in TxnIds : getTransactionById(id)
  \/ \E id \in TxnIds, status \in StatusInputs \cup {UNDEFINED} :
       updateTransactionStatus(id, status)
  \/ \E user \in Staff, data \in ProductInputs : createProduct(user, data)
  \/ \E user \in Staff, id \in RequestIds : deleteProductById(user, id)
  \/ \E id \in ProductIds, data \in ProductInputs : ProductEdited(id, data)

Spec == Init /\ [][Next]_vars

NextOrders ==
  \/ \E r \in Reqs, body \in FirstProductBodies, customer \in Customers :
       createTransaction(r, body, customer)
  \/ \E r \in Reqs : createTransactionHeader(r)
  \/ \E r \in Reqs, storeFails \in BOOLEAN : createTransactionItems(r, storeFails)
  \/ \E status \in StatusInputs \cup {UNDEFINED} : getTransactions(status)
  \/ \E id \in TxnIds : getTransactionById(id)
  \/ \E id \in TxnIds, status \in StatusInputs \cup {UNDEFINED} :
       updateTransactionStatus(id, status)
  \/ \E user \in Staff, data \in ProductInputs :
       nextProductId \in FirstProduct /\ createProduct(user, data)

SpecOrders == Init /\ [][NextOrders]_vars

\* SpecRoutes: the product and transaction routes with their middleware in front
NextRoutes ==
  \/ \E token \in Tokens, data \in ProductInputs : POST_product(token, data)
  \/ \E token \in Tokens, id \in RequestIds : DELETE_product(token, id)
  \/ \E id \in RequestIds : getProductById(id)
  \/ \E r \in FirstRequest, req \in TransactionRequests : POST_transaction(r, req)
  \/ \E r \in FirstRequest :
       ct[r].pc = "next" /\ createTransaction(r, ct[r].req.products, ct[r].req.customer)
  \/ \E r \in FirstRequest : createTransactionHeader(r)
  \/ \E r \in FirstRequest, storeFails \in BOOLEAN : createTransactionItems(r, storeFails)

SpecRoutes == Init /\ [][NextRoutes]_vars

\* SpecSpellings: one createTransaction request whose entries spell the id of the
\* first product in lower or upper case
NextSpellings ==
  \/ \E user \in Staff, data \in ProductInputs :
       nextProductId \in FirstProduct /\ createProduct(user, data)
  \/ \E r \in FirstRequest, body \in SpelledBodies, customer \in Customers :
       createTransaction(r, body, customer)
  \/ \E r \in FirstRequest : createTransactionHeader(r)
  \/ \E r \in FirstRequest, storeFails \in BOOLEAN : createTransactionItems(r, storeFails)
  \/ \E id \in TxnIds : getTransactionById(id)

SpecSpellings == Init /\ [][NextSpellings]_vars

\* SpecUpdates: one order, and MaxUpdates updateTransactionStatus requests running
\* side by side
NextUpdates ==
  \/ \E user \in Staff, data \in ProductInputs :
       nextProductId \in FirstProduct /\ createProduct(user, data)
  \/ \E r \in FirstRequest, body \in FirstProductBodies, customer \in Customers :
       createTransaction(r, body, customer)
  \/ \E r \in FirstRequest : createTransactionHeader(r)
  \/ \E r \in FirstRequest, storeFails \in BOOLEAN : createTransactionItems(r, storeFails)
  \/ \E u \in Upds, id \in TxnIds, status \in StatusInputs \cup {UNDEFINED} :
       updateTransactionStatusAwait(u, id, status)
  \/ \E u \in Upds : updateTransactionStatusAnswer(u)
  \/ \E id \in TxnIds : getTransactionById(id)

SpecUpdates == Init /\ [][NextUpdates]_vars

\* SpecAuth: MaxRegisters register requests running side by side, and logins
NextAuth ==
  \/ \E g \in Regs, body \in RegisterBodies : register(g, body)
  \/ \E g \in Regs : registerCreate(g)
  \/ \E body \in LoginBodies : login(body)

SpecAuth == Init /\ [][NextAuth]_vars

\* ---- the claims ----------------------------------------------------------
\* handler h sent a response in this step (a response is compared only with
\* one of the same handler)
Answered(h) == res'.handler = h /\ (res.handler # h \/ res' # res)

\* the ids a createTransaction request asks for
Requested(r) == {ct[r].products[i].id : i \in DOMAIN ct[r].products}

\* request r ended in success: the handler sent its "Created" answer
Created(r) == ct[r].pc = "done" /\ ct[r].error = NULL /\ ct[r].res.http = OK

\* a header without any line, a line without its header
HeaderWithoutItems == \E id \in DOMAIN transactions : ItemsOf(id) = {}
ItemsWithoutHeader == \E i \in items : i.transactionId \notin DOMAIN transactions

\* C1: when the line-item insert of createTransaction fails after the header
\* insert succeeded, the request is answered with a failure and the store holds
\* no header with zero items and no items without a header.
C1_ItemFailureLeavesNoPartialOrder ==
  \A r \in Reqs :
    (ct[r].pc = "done" /\ ct[r].error = "createMany failed")
      => /\ ct[r].res.http = INTERNAL_SERVER_ERROR
         /\ ~HeaderWithoutItems
         /\ ~ItemsWithoutHeader

\* C2: no response of getTransactionById or getTransactions shows an order whose
\* header is there and whose line items are missing.
C2_NoReadOfHeaderWithoutItems ==
  /\ (res.handler = "getTransactionById" /\ res.http = OK)
       => res.body.data.products # {}
  /\ (res.handler = "getTransactions" /\ res.http = OK)
       => \A transaction \in res.body.data : transaction.products # {}

\* the store holds the order request r assembled: its total and one line per
\* product found, with the name, price and quantity of that product
Persisted(r) ==
  LET id == ct[r].transactionId IN
  /\ id \in DOMAIN transactions
  /\ transactions[id].total = gross_amount(ct[r].productsFromDB)
  /\ transactions[id].updatedAt = transactions[id].createdAt
       => transactions[id].status = PENDING
  /\ { <<i.productId, i.productName, i.price, i.quantity>> : i \in ItemsOf(id) }
       = { <<p.id, p.name, p.price, p.quantity>> : p \in ct[r].productsFromDB }
  /\ Cardinality(ItemsOf(id)) = Cardinality(ct[r].productsFromDB)

\* C3: every createTransaction request that found at least one of its product
\* ids in the catalog, and that the store did not fail, has persisted its order:
\* status PENDING, one line item per product found, total = sum of price x quantity.
C3_EveryResolvedRequestPersistsItsOrder ==
  \A r \in Reqs :
    (ct[r].pc = "done" /\ ct[r].productsFromDB # {} /\ ct[r].error # "createMany failed")
      => Persisted(r)

\* C4: a createTransaction request none of whose product ids is in the catalog
\* is answered with 404, and its step writes no header and no line item.
C4_NoProductFoundIs404 ==
  [][\A r \in Reqs :
       (ct[r].pc = "idle" /\ ct'[r].pc # "idle"
          /\ {ct'[r].products[i].id : i \in DOMAIN ct'[r].products} \cap DOMAIN products = {})
         => /\ ct'[r].pc = "done"
            /\ ct'[r].res.http = NOT_FOUND
            /\ UNCHANGED <<transactions, items>>]_vars

\* C5: once an order is created, every later getTransactionById of it answers
\* with the total and the per-item names and prices computed at creation, and
\* with status PENDING as long as no status update was written, whatever has
\* happened to the catalog since.
C5_ReadBackKeepsSnapshot ==
  [][\A r \in Reqs :
       (Created(r) /\ Answered("getTransactionById") /\ res'.arg = ct[r].transactionId)
         => /\ res'.http = OK
            /\ res'.body.data.total = ct[r].gross_amount
            /\ { <<e.id, e.name, e.price>> : e \in res'.body.data.products }
                 = { <<p.id, p.name, p.price>> : p \in ct[r].productsFromDB }
            /\ transactions[ct[r].transactionId].updatedAt
                 = transactions[ct[r].transactionId].createdAt
                 => res'.body.data.status = PENDING]_vars

C7_UpdateOfMissingOrderIs404 ==
  [][(Answered("updateTransactionStatus") /\ res'.arg.id \notin DOMAIN transactions
        /\ res'.arg.status \in payment_status)
       => /\ res'.http = NOT_FOUND
          /\ res'.body.msg = "Transaction not found"
          /\ UNCHANGED <<transactions, items>>]_vars

\* C8: getTransactions with a status of the enum answers with exactly the stored
\* orders of that status, without a status with every stored order, each
\* reshaped, and writes nothing.
C8_ListIsExactlyTheMatchingOrders ==
  [][(Answered("getTransactions") /\ res'.arg \in payment_status \cup {UNDEFINED})
       => /\ res'.http = OK
          /\ { o.id : o \in res'.body.data }
               = { id \in DOMAIN transactions :
                     res'.arg = UNDEFINED \/ transactions[id].status = res'.arg }
          /\ \A o \in res'.body.data : o.status = transactions[o.id].status
          /\ UNCHANGED <<transactions, items, products>>]_vars

\* C9: getTransactionById answers 404 "Transaction not found", as a response of
\* the handler and not through the error middleware, when no order has the id,
\* and otherwise 200 with that order reshaped by reformTransaction.
C9_GetByIdIs404OrReshaped ==
  [][Answered("getTransactionById")
       => IF res'.arg \notin DOMAIN transactions
          THEN /\ res'.http = NOT_FOUND
               /\ res'.error = NULL
               /\ res'.body.statusCode = NOT_FOUND
               /\ res'.body.msg = "Transaction not found"
          ELSE /\ res'.http = OK
               /\ res'.error = NULL
               /\ res'.body.data.id = res'.arg
               /\ res'.body.data.total = transactions[res'.arg].total
               /\ res'.body.data.status = transactions[res'.arg].status
               /\ { e.id : e \in res'.body.data.products }
                    = { i.productId : i \in ItemsOf(res'.arg) }]_vars

\* C10: in the list of getTransactions every entry of an order's products takes
\* id, name, price and quantity from the stored line item and image from the
\* product as it is now; for a created order these are the name and price
\* captured at creation.
C10_ReshapeMixesSnapshotAndLiveImage ==
  [][Answered("getTransactions") /\ res'.http = OK
       => /\ \A o \in res'.body.data :
               o.products = { [id |-> i.productId, name |-> i.productName,
                               price |-> i.price, quantity |-> i.quantity,
                               image |-> products[i.productId].image]
                              : i \in ItemsOf(o.id) }
          /\ \A r \in Reqs : \A o \in res'.body.data :
               (Created(r) /\ o.id = ct[r].transactionId)
                 => { <<e.id, e.name, e.price, e.quantity>> : e \in o.products }
                      = { <<p.id, p.name, p.price, p.quantity>>
                          : p \in ct[r].productsFromDB }]_vars

\* the list shows a created order with the new image of an edited product and
\* the name and price it had at creation
C10_Witness ==
  /\ Created(1)
  /\ res.handler = "getTransactions" /\ res.http = OK
  /\ \E o \in res.body.data : \E e \in o.products : \E p \in ct[1].productsFromDB :
       /\ o.id = ct[1].transactionId
       /\ e.id = p.id /\ e.name = p.name /\ e.price = p.price
       /\ e.image # p.image /\ e.image = products[p.id].image
       /\ products[p.id].name # p.name

C12_CatalogWritesNeedVerifiedToken ==
  [][/\ (Answered("createProduct") \/ Answered("deleteProductById"))
          => res'.arg.user \in Staff
     /\ (Answered("POST /product") \/ Answered("DELETE /product/:id"))
          => /\ ~(res'.arg.token # UNDEFINED /\ Verifies(res'.arg.token))
             /\ res'.http = UNAUTHORIZED
             /\ UNCHANGED <<products, nextProductId>>
     /\ products' # products
          => /\ res' # res
             /\ res'.handler \in {"createProduct", "deleteProductById"}
             /\ res'.arg.user \in Staff]_vars

\* a DELETE with a forged token was answered 401 while the catalog holds a
\* product that a verified request created
C12_Witness ==
  /\ res.handler = "DELETE /product/:id"
  /\ res.arg.token = "forged"
  /\ res.http = UNAUTHORIZED
  /\ products # <<>>

\* C18: a POST /transaction request whose body lacks one of products,
\* customerName, customerEmail, customerPhone, customerTableNumber is rejected
\* by the validator with BadRequest (400); createTransaction is not entered for
\* it, so nothing is looked up and nothing is written.
C18_ValidatorRejectsBeforeHandler ==
  [][\A r \in Reqs :
       (ct'[r].pc # "idle" /\ ct'[r].req.lacks # {})
         => /\ ct'[r].pc = "done"
            /\ ct'[r].error = "BadRequestError"
            /\ ct'[r].res.http = BAD_REQUEST
            /\ ct'[r].products = <<>>
            /\ ct'[r].productsFromDB = {}
            /\ ct[r].pc = "idle" => UNCHANGED <<products, transactions, items>>]_vars

\* a request without customerPhone was answered 400 although its product is
\* in the catalog
C18_Witness ==
  /\ ct[1].pc = "done"
  /\ ct[1].req.lacks = {"customerPhone"}
  /\ ct[1].res.http = BAD_REQUEST
  /\ \A i \in DOMAIN ct[1].req.products : ct[1].req.products[i].id \in DOMAIN products
  /\ transactions = <<>> /\ items = {}

\* C13: no two stored users share an email: a register request for an email
\* that is stored is rejected and stores nothing, and of register requests for
\* one email that all passed the pre-check at most one stores a user.
C13_EmailIsUnique ==
  /\ [](\A u1 \in users, u2 \in users : u1.email = u2.email => u1 = u2)
  /\ [][\A g \in Regs :
          (rg[g].pc = "idle" /\ rg'[g].pc # "idle"
             /\ \E user \in users : user.email = rg'[g].body.email)
            => /\ rg'[g].pc = "done"
               /\ rg'[g].error = "UnauthenticatedError"
               /\ rg'[g].res.http = UNAUTHORIZED
               /\ users' = users]_vars

\* two register requests for one email both passed the pre-check; one stored
\* its user and the other was refused by the store
C13_Witness ==
  /\ rg[1].pc = "done" /\ rg[2].pc = "done"
  /\ rg[1].body.email = rg[2].body.email
  /\ \E g \in Regs, h \in Regs :
       /\ rg[g].res.http = CREATED
       /\ rg[h].error = "Unique constraint failed"
  /\ Cardinality(users) = 1

\* C14: no successful answer of register (201) or login (200) carries the
\* password field of the user.
C14_NoPasswordInResponse ==
  /\ \A g \in Regs :
       (rg[g].pc = "done" /\ rg[g].res.http = CREATED)
         => "password" \notin DOMAIN rg[g].res.body.data
  /\ (res.handler = "login" /\ res.http = OK)
       => "password" \notin DOMAIN res.body.data

\* C15: a createTransaction request that succeeded is answered with HTTP status
\* 201 and with the order as the handler assembled it: its id, status PENDING,
\* the customer fields and the products found with their quantities.
C15_CreateAnswers201WithAssembledOrder ==
  \A r \in Reqs :
    (ct[r].pc = "done" /\ ct[r].error = NULL /\ ct[r].productsFromDB # {})
      => /\ ct[r].res.http = CREATED
         /\ ct[r].res.body.data.id = ct[r].transactionId
         /\ ct[r].res.body.data.status = PENDING
         /\ ct[r].res.body.data.customerName = ct[r].customer.customerName
         /\ ct[r].res.body.data.products = ct[r].productsFromDB

C20_HttpStatusIsEnvelopeStatusCode ==
  /\ \A r \in Reqs :
       (ct[r].pc = "done" /\ ct[r].error = NULL)
         => ct[r].res.http = ct[r].res.body.statusCode
  /\ (res.handler \in {"getTransactions", "getTransactionById", "updateTransactionStatus"}
        /\ res.error = NULL)
       => res.http = res.body.statusCode

\* C19: when the store rejects the id given to deleteProductById or
\* getProductById (a malformed identifier, or the delete of an id that matches
\* no product) the answer is NotFound (404), and the catalog is left as it was.
C19_RejectedProductIdIs404 ==
  [][/\ (Answered("deleteProductById")
           /\ (~IsObjectId(res'.arg.id) \/ res'.arg.id \notin DOMAIN products))
          => /\ res'.http = NOT_FOUND
             /\ UNCHANGED products
     /\ (Answered("getProductById") /\ ~IsObjectId(res'.arg))
          => /\ res'.http = NOT_FOUND
             /\ UNCHANGED products]_vars

\* the update requests whose write the store has applied to order id
Written(id) ==
  {u \in Upds : ut[u].pc \in {"answer", "done"} /\ ut[u].error = NULL /\ ut[u].id = id}

\* C17: updateTransactionStatus requests for one existing order that run side by
\* side with values of the enum all complete, none is refused because of
\* another, and the stored status is the value of the request whose write the
\* store applied last, with paymentMethod null.
C17_LastWriteWins ==
  /\ [](\A id \in DOMAIN transactions : \A u \in Written(id) :
          (/\ ut[u].status \in payment_status
           /\ \A v \in Written(id) :
                ut[v].transaction.updatedAt <= ut[u].transaction.updatedAt)
            => /\ transactions[id].status = ut[u].status
               /\ transactions[id].paymentMethod = NULL)
  /\ [][\A u \in Upds :
          (ut[u].pc = "idle" /\ ut'[u].pc # "idle"
             /\ ut'[u].id \in DOMAIN transactions /\ ut'[u].status \in payment_status)
            => /\ ut'[u].pc = "answer"
               /\ ut'[u].error = NULL
               /\ transactions'[ut'[u].id].status = ut'[u].status]_vars
  /\ [](\A u \in Upds :
          (ut[u].pc = "done" /\ ut[u].error = NULL /\ ut[u].status \in payment_status)
            => /\ ut[u].res.http = OK
               /\ ut[u].res.body.data.status = ut[u].status)

\* two requests for one order, with PAID and with CANCELED, have both been
\* applied by the store before either was answered
C17_Witness ==
  /\ ut[1].pc = "answer" /\ ut[2].pc = "answer"
  /\ ut[1].id = ut[2].id
  /\ ut[1].status = "PAID" /\ ut[2].status = "CANCELED"
  /\ transactions[ut[1].id].status = "CANCELED"

\* C21: after any sequence of createProduct, deleteProductById and
\* createTransaction, every stored line item's productId is the id of a product
\* in the catalog, so no getTransactionById or getTransactions fails on a stored
\* order while it reads the items' products.
C21_EveryLineItemHasItsProduct ==
  /\ [](\A i \in items : i.productId \in DOMAIN products)
  /\ [][(Answered("getTransactionById") \/ Answered("getTransactions"))
          => res'.error # "Inconsistent query result"]_vars

\* the ids a request body lists in more than one entry
Duplicated(body) ==
  {id \in {body[i].id : i \in DOMAIN body} :
     Cardinality({i \in DOMAIN body : body[i].id = id}) > 1}

\* the quantity of the first entry of the body with that id
FirstQuantity(body, id) ==
  LET first == CHOOSE i \in DOMAIN body :
                 body[i].id = id /\ \A j \in 1..(i - 1) : body[j].id # id
  IN body[first].quantity

\* C22: when a createTransaction request lists one existing product id in more
\* than one entry, exactly one line item is created for that product, with the
\* quantity of the first entry with that id, and the total counts the product
\* once with that quantity; and the quantity lookup finds a request entry for
\* every product the catalog lookup returned.
C22_DuplicateEntriesMakeOneLineItem ==
  /\ [][\A r \in Reqs :
          (ct[r].pc = "idle" /\ ct'[r].pc # "idle")
            => LET body == ct'[r].products
                   ids == {body[i].id : i \in DOMAIN body}
               IN /\ ((\A id \in ids : IsObjectId(id)) /\ FindManyIn(ids) # {})
                       => /\ ct'[r].pc = "create"
                          /\ ct'[r].error = NULL
                  /\ \A id \in Duplicated(body) \cap DOMAIN products :
                       ct'[r].pc = "create"
                         => \E p \in ct'[r].productsFromDB :
                              /\ p.id = id
                              /\ \A q \in ct'[r].productsFromDB : q.id = id => q = p
                              /\ p.quantity = FirstQuantity(body, id)
                              /\ ct'[r].gross_amount
                                   = products[id].price * FirstQuantity(body, id)
                                     + gross_amount(ct'[r].productsFromDB \ {p})]_vars
  /\ [](\A r \in Reqs :
          Created(r)
            => \A id \in Duplicated(ct[r].products) :
                 \A i \in ItemsOf(ct[r].transactionId) :
                   i.productId = id
                     => /\ i.quantity = FirstQuantity(ct[r].products, id)
                        /\ \A j \in ItemsOf(ct[r].transactionId) :
                             j.productId = id => j = i)
====
